---- MODULE Spec2Model ----
(***************************************************************************)
(* Model of the Athena analysis pipeline: the WorkflowManager orchestrator *)
(* (src/orchestrator/workflow_manager.py), its Firestore checkpoint store  *)
(* and its BigQuery sink, driven by the upload entry point of src/main.py. *)
(***************************************************************************)
EXTENDS Integers, Sequences, FiniteSets, TLC

(***************************************************************************)
(* Bounds of the model.                                                    *)
(***************************************************************************)
\* number of submissions the entry point hands out an id for
MaxRuns == 2

Runs == 1..MaxRuns

\* longest founder list of a startup profile
MaxFounders == 2

\* the largest number of founder verification records of a scored profile
MaxVerifications == 6

\* file extensions a submission may carry: one kind the ingestion worker
\* recognises and one it does not
FileTypes == {"pdf", "docx"}

(***************************************************************************)
(* Fixed tables of the orchestrator.                                       *)
(***************************************************************************)
\* the six stages, in the order process_startup_submission runs them
Stages ==
  <<"ingestion", "extraction", "enrichment", "quantitative_analysis",
    "risk_analysis", "synthesis">>

\* the key of analysis_state under which each stage's output is kept
OutputKeys ==
  <<"ingestion_result", "startup_profile", "enriched_profile",
    "quant_analysis", "risk_analysis", "final_analysis">>

StageIdx == 1..Len(Stages)

\* the key a stage's output is stored under (mutation: two keys exchanged)
OutputKeyMut(k) ==
  IF k = 2 THEN OutputKeys[3] ELSE IF k = 3 THEN OutputKeys[2] ELSE OutputKeys[k]

OutputKey(k) ==
  OutputKeys[k]

\* ScribeAgent.process_document accepts these kinds and raises on any other
SupportedFileType(ext) ==
  ext \in {"pdf", "jpg", "jpeg", "png", "mp3", "wav", "m4a"}

\* main.py: file_path = f"{upload_dir}/{submission_id}.{file_extension}"
FilePath(id, ext) ==
  <<"uploads", id, ext>>

\* datetime.utcnow().isoformat() read by a run at one of its events: the
\* instant is named by the run and the event at which it was read
UtcNow(id, event) ==
  <<"utcnow", id, event>>

\* the payload a stage worker returns for a run: an opaque document that
\* identifies the stage that produced it and the submitted file it is about
WorkerOutput(k, id, ext) ==
  [stage |-> Stages[k], about |-> FilePath(id, ext)]

(***************************************************************************)
(* Dictionaries (Python dict, Firestore document): functions on their keys.*)
(***************************************************************************)
EmptyDict == << >>

\* an optional number: None, or Num(n) for the number n
None == << >>

Num(n) == <<n>>

DictSet(d, key, v) ==
  [x \in DOMAIN d \cup {key} |-> IF x = key THEN v ELSE d[x]]

Has(d, key) ==
  key \in DOMAIN d

\* mutation: a field the document already has is not overwritten
MergeDocMut(doc, st) ==
  [x \in DOMAIN doc \cup DOMAIN st |-> IF x \in DOMAIN doc THEN doc[x] ELSE st[x]]

\* doc_ref.set(state, merge=True) on an existing document: the fields of
\* state are written, the other fields of the document are kept
MergeDoc(doc, st) ==
  [x \in DOMAIN doc \cup DOMAIN st |-> IF x \in DOMAIN st THEN st[x] ELSE doc[x]]

\* mutation: the document written is not named by the submission id
SaveAnalysisStateMutShared(d, id, st) ==
  [x \in DOMAIN d \cup {1} |->
     IF x = 1 THEN (IF 1 \in DOMAIN d THEN MergeDoc(d[1], st) ELSE st)
              ELSE d[x]]

\* mutation: the write is dropped once the state carries an error
SaveAnalysisStateMut(d, id, st) ==
  IF Has(st, "error")
    THEN d
    ELSE [x \in DOMAIN d \cup {id} |->
            IF x = id THEN (IF id \in DOMAIN d THEN MergeDoc(d[id], st) ELSE st)
                      ELSE d[x]]

\* _save_analysis_state: merge-write of the state into the run's document
SaveAnalysisState(d, id, st) ==
  [x \in DOMAIN d \cup {id} |->
     IF x = id THEN (IF id \in DOMAIN d THEN MergeDoc(d[id], st) ELSE st)
               ELSE d[x]]

(***************************************************************************)
(* The assignments process_startup_submission makes to analysis_state.     *)
(***************************************************************************)
\* lines 40-48
InitialState(id, ext, t) ==
  [x \in {"submission_id", "status", "current_stage", "started_at",
          "file_path", "file_type", "metadata"} |->
     CASE x = "submission_id" -> id
       [] x = "status"        -> "processing"
       [] x = "current_stage" -> "ingestion"
       [] x = "started_at"    -> t
       [] x = "file_path"     -> FilePath(id, ext)
       [] x = "file_type"     -> ext
       [] x = "metadata"      -> EmptyDict]

\* mutation: the stage about to run is not recorded
BeginStageMut(st, k) ==
  st

\* analysis_state["current_stage"] = <stage>, lines 56, 64, 73, 81, 89, 97
BeginStage(st, k) ==
  DictSet(st, "current_stage", Stages[k])

\* mutation: the ingestion result is kept under every stage's key
StoreOutputMutWrong(st, k, v) ==
  DictSet(st, OutputKey(k),
          IF Has(st, OutputKeys[1]) THEN st[OutputKeys[1]] ELSE v)

\* mutation: the worker's result is not kept
StoreOutputMutDrop(st, k, v) ==
  st

\* mutation: the extraction result is assigned to the ingestion stage's key
StoreOutputMutClobber(st, k, v) ==
  DictSet(st, OutputKey(IF k = 2 THEN 1 ELSE k), v)

\* analysis_state[<output key>] = <result>, lines 60, 69, 77, 85, 93, 103
StoreOutput(st, k, v) ==
  DictSet(st, OutputKey(k), v)

\* lines 106-108
CompleteState(st, t) ==
  DictSet(DictSet(DictSet(st, "status", "completed"),
                  "current_stage", "completed"),
          "completed_at", t)

\* analysis_state["error"] = str(e), line 132: a plain string, which carries
\* the exception's message and nothing else
ErrorValue(msg) ==
  [message |-> msg]

\* mutation: the time of the failure is not recorded
ErrorStateMut(st, msg, t) ==
  DictSet(DictSet(st, "status", "error"), "error", ErrorValue(msg))

\* mutation: the stage is replaced by a marker of the failure
ErrorStateMutStage(st, msg, t) ==
  DictSet(DictSet(DictSet(DictSet(st, "status", "error"),
                          "error", ErrorValue(msg)),
                  "failed_at", t),
          "current_stage", "failed")

\* mutation: the status is left as it was
ErrorStateMutNoStatus(st, msg, t) ==
  DictSet(DictSet(st, "error", ErrorValue(msg)), "failed_at", t)

\* lines 131-133
ErrorState(st, msg, t) ==
  DictSet(DictSet(DictSet(st, "status", "error"), "error", ErrorValue(msg)),
          "failed_at", t)

\* _save_to_bigquery, lines 147-161: the row built for startup_profiles
StartupRow(id, st) ==
  [startup_id |-> id,
   profile    |-> IF Has(st, "enriched_profile") THEN st["enriched_profile"]
                                                ELSE EmptyDict,
   created_at |-> IF Has(st, "started_at") THEN st["started_at"] ELSE << >>,
   updated_at |-> IF Has(st, "completed_at") THEN st["completed_at"] ELSE << >>]

\* str(e) of the exception a stage worker raises
WorkerError(k) ==
  <<"worker failed", Stages[k]>>

\* str(e) of the exception the BigQuery client raises
SinkError == <<"sink failed">>

(***************************************************************************)
(* State.                                                                  *)
(***************************************************************************)
VARIABLES
  pc,       \* pc[r]: where run r's coroutine stands
  input,    \* input[r]: the file extension submitted with run r
  stage,    \* stage[r]: index of the stage run r is at
  state,    \* state[r]: the analysis_state dict of run r
  db,       \* the analysis_states collection: document id -> document
  bq,       \* the rows of the startup_profiles table
  calls,    \* calls[r]: the stage workers invoked for run r, in order
  failed,   \* failed[r]: what raised in run r ("none" if nothing did)
  sink      \* sink[r]: outcome of run r's call of _save_to_bigquery

\* one call of ScoutAgent.enrich_startup_data
VARIABLES
  epc,      \* where the call stands: "idle", "gather", "returned", "raised"
  eprofile, \* the startup_profile dict object passed to the call
  eorig,    \* the content of that object when the call was made
  etask,    \* etask[i]: state of the i-th lookup task
  eresult   \* the dict the call returned

\* one call of the score aggregation of AnalystAgent
VARIABLES
  spc,      \* where the call stands: "off", "idle", "scored", "raised",
            \* "recommended"
  sin,      \* the arguments of the call
  sscore,   \* the dict _calculate_investment_score returned
  srec,     \* the dict _generate_recommendation returned
  srisk,    \* the number _calculate_overall_risk returned (in millionths)
  sfirst,   \* what an earlier invocation with the same arguments returned
  sflags,   \* the list _identify_red_flags returned
  squant,   \* the number _calculate_overall_score returned
  thesis_weights,   \* AnalystAgent.thesis_weights
  risk_categories   \* SkepticAgent.risk_categories

\* the read-only entry points of WorkflowManager
VARIABLES
  reply,    \* the last answer of get_analysis_status: the id asked for and
            \* the dict returned
  lpc,      \* a call of list_recent_analyses: "off", "idle", "returned"
  lstore,   \* the analysis_states collection the call reads
  llimit,   \* its limit argument
  lres      \* the list it returned

\* one call of ScoutAgent._verify_founder_credentials
VARIABLES
  vpc,        \* "off", "loop", "returned", "raised"
  vfounders,  \* the founders argument
  vidx,       \* the position of the loop in founders
  vresults,   \* verification_results
  vlookups    \* the names _search_linkedin_profile was called with, in order

pvars == <<pc, input, stage, state, db, bq, calls, failed, sink>>

vvars == <<vpc, vfounders, vidx, vresults, vlookups>>

avars == <<reply, lpc, lstore, llimit, lres>>

evars == <<epc, eprofile, eorig, etask, eresult>>

svars ==
  <<spc, sin, sscore, srec, srisk, sfirst, sflags, squant, thesis_weights,
    risk_categories>>

vars == <<pvars, evars, svars, avars, vvars>>

\* what the pipeline's actions leave alone, and what a call of
\* enrich_startup_data leaves alone
nonPipelineVars == <<evars, svars, avars, vvars>>

nonEnrichVars == <<pvars, svars, avars, vvars>>

nonScoreVars == <<pvars, evars, avars, vvars>>

Lookups == 1..5

\* no call of enrich_startup_data is in progress
EnrichIdle ==
  /\ epc = "idle"
  /\ eprofile = EmptyDict
  /\ eorig = EmptyDict
  /\ etask = [i \in Lookups |-> "none"]
  /\ eresult = EmptyDict

\* no call of the score aggregation is in progress
ScoreIdle ==
  /\ spc = "off"
  /\ sin = EmptyDict
  /\ sscore = EmptyDict
  /\ srec = EmptyDict
  /\ srisk = None
  /\ sfirst = EmptyDict
  /\ sflags = << >>
  /\ squant = None
  /\ thesis_weights = EmptyDict
  /\ risk_categories = EmptyDict

\* no status lookup has been answered and no listing is in progress
ApiIdle ==
  /\ reply = EmptyDict
  /\ lpc = "off"
  /\ lstore = EmptyDict
  /\ llimit = 0
  /\ lres = << >>

\* no call of _verify_founder_credentials is in progress
VerifyIdle ==
  /\ vpc = "off"
  /\ vfounders = << >>
  /\ vidx = 0
  /\ vresults = EmptyDict
  /\ vlookups = << >>

PipelineInit ==
  /\ pc = [r \in Runs |-> "idle"]
  /\ input = [r \in Runs |-> "none"]
  /\ stage = [r \in Runs |-> 0]
  /\ state = [r \in Runs |-> EmptyDict]
  /\ db = EmptyDict
  /\ bq = {}
  /\ calls = [r \in Runs |-> << >>]
  /\ failed = [r \in Runs |-> "none"]
  /\ sink = [r \in Runs |-> "none"]

Init ==
  /\ PipelineInit
  /\ EnrichIdle
  /\ ScoreIdle
  /\ ApiIdle
  /\ VerifyIdle

(***************************************************************************)
(* Actions.                                                                *)
(***************************************************************************)
\* main.py upload_and_analyze: a fresh id is generated and the run is queued
\* as a background task
Submit(r, ext) ==
  /\ pc[r] = "idle"
  /\ \A q \in Runs : q < r => pc[q] # "idle"
  /\ pc' = [pc EXCEPT ![r] = "queued"]
  /\ input' = [input EXCEPT ![r] = ext]
  /\ UNCHANGED <<nonPipelineVars, stage, state, db, bq, calls, failed, sink>>

\* lines 39-59: build analysis_state and save it, then set
\* current_stage, save again and call the ingestion worker.  Nothing suspends
\* the coroutine between the two saves.
Start(r) ==
  /\ pc[r] = "queued"
  /\ LET init == InitialState(r, input[r], UtcNow(r, "started"))
         st   == BeginStage(init, 1)
     IN  /\ state' = [state EXCEPT ![r] = st]
         /\ db' = SaveAnalysisState(SaveAnalysisState(db, r, init), r, st)
  /\ stage' = [stage EXCEPT ![r] = 1]
  /\ calls' = [calls EXCEPT ![r] = Append(@, 1)]
  /\ pc' = [pc EXCEPT ![r] = "worker"]
  /\ UNCHANGED <<nonPipelineVars, input, bq, failed, sink>>

\* mutation: the checkpoint is written as soon as the result is stored,
\* before current_stage is advanced
WorkerReturnMut(r) ==
  /\ pc[r] = "worker"
  /\ stage[r] < Len(Stages)
  /\ stage[r] = 1 => SupportedFileType(input[r])
  /\ LET out    == WorkerOutput(stage[r], r, input[r])
         stored == StoreOutput(state[r], stage[r], out)
     IN  /\ state' = [state EXCEPT ![r] = BeginStage(stored, stage[r] + 1)]
         /\ db' = SaveAnalysisState(db, r, stored)
  /\ stage' = [stage EXCEPT ![r] = @ + 1]
  /\ calls' = [calls EXCEPT ![r] = Append(@, stage[r] + 1)]
  /\ UNCHANGED <<nonPipelineVars, pc, input, bq, failed, sink>>

\* the worker of one of the first five stages returns: its result is put
\* into analysis_state, current_stage is set to the next stage, the state is
\* saved and the next worker is called (lines 59-65, 68-74, 76-82, 84-90,
\* 92-100)
WorkerReturn(r) ==
  /\ pc[r] = "worker"
  /\ stage[r] < Len(Stages)
  /\ stage[r] = 1 => SupportedFileType(input[r])
  /\ LET out == WorkerOutput(stage[r], r, input[r])
         st  == BeginStage(StoreOutput(state[r], stage[r], out), stage[r] + 1)
     IN  /\ state' = [state EXCEPT ![r] = st]
         /\ db' = SaveAnalysisState(db, r, st)
  /\ stage' = [stage EXCEPT ![r] = @ + 1]
  /\ calls' = [calls EXCEPT ![r] = Append(@, stage[r] + 1)]
  /\ UNCHANGED <<nonPipelineVars, pc, input, bq, failed, sink>>

\* the synthesis worker returns: its result is put into analysis_state and
\* the run is marked completed in analysis_state (lines 100-108)
Complete(r) ==
  /\ pc[r] = "worker"
  /\ stage[r] = Len(Stages)
  /\ LET out == WorkerOutput(stage[r], r, input[r])
     IN  state' = [state EXCEPT
                     ![r] = CompleteState(StoreOutput(@, stage[r], out),
                                          UtcNow(r, "completed"))]
  /\ pc' = [pc EXCEPT ![r] = "sink"]
  /\ UNCHANGED <<nonPipelineVars, input, stage, db, bq, calls, failed, sink>>

\* mutation: the exception of a worker is swallowed and the next stage is
\* started without the failed stage's output
WorkerRaiseMut(r) ==
  /\ pc[r] = "worker"
  /\ stage[r] < Len(Stages)
  /\ LET st == BeginStage(state[r], stage[r] + 1)
     IN  /\ state' = [state EXCEPT ![r] = st]
         /\ db' = SaveAnalysisState(db, r, st)
  /\ stage' = [stage EXCEPT ![r] = @ + 1]
  /\ calls' = [calls EXCEPT ![r] = Append(@, stage[r] + 1)]
  /\ UNCHANGED <<nonPipelineVars, pc, input, bq, failed, sink>>

\* mutation: an empty result of the failed stage is kept in the state
WorkerRaiseMutKeep(r) ==
  /\ pc[r] = "worker"
  /\ failed' = [failed EXCEPT ![r] = Stages[stage[r]]]
  /\ LET st == ErrorState(StoreOutput(state[r], stage[r], EmptyDict),
                          WorkerError(stage[r]), UtcNow(r, "failed"))
     IN  /\ state' = [state EXCEPT ![r] = st]
         /\ db' = SaveAnalysisState(db, r, st)
  /\ pc' = [pc EXCEPT ![r] = "raised"]
  /\ UNCHANGED <<nonPipelineVars, input, stage, bq, calls, sink>>

\* a stage worker raises: the except clause records the error, saves and
\* re-raises (lines 129-136)
WorkerRaise(r) ==
  /\ pc[r] = "worker"
  /\ failed' = [failed EXCEPT ![r] = Stages[stage[r]]]
  /\ LET st == ErrorState(state[r], WorkerError(stage[r]), UtcNow(r, "failed"))
     IN  /\ state' = [state EXCEPT ![r] = st]
         /\ db' = SaveAnalysisState(db, r, st)
  /\ pc' = [pc EXCEPT ![r] = "raised"]
  /\ UNCHANGED <<nonPipelineVars, input, stage, bq, calls, sink>>

\* line 111, _save_to_bigquery: the row is inserted, or insert_rows_json
\* returns errors (which are printed)
SaveToBigQuery(r, res) ==
  /\ pc[r] = "sink"
  /\ res \in {"ok", "errors"}
  /\ sink' = [sink EXCEPT ![r] = res]
  /\ bq' = IF res = "ok" THEN bq \cup {StartupRow(r, state[r])} ELSE bq
  /\ pc' = [pc EXCEPT ![r] = "final_save"]
  /\ UNCHANGED <<nonPipelineVars, input, stage, state, db, calls, failed>>

\* line 111, _save_to_bigquery: get_table or insert_rows_json raises; the
\* exception reaches the except clause of lines 129-136
SaveToBigQueryRaise(r) ==
  /\ pc[r] = "sink"
  /\ sink' = [sink EXCEPT ![r] = "raised"]
  /\ failed' = [failed EXCEPT ![r] = "sink"]
  /\ LET st == ErrorState(state[r], SinkError, UtcNow(r, "failed"))
     IN  /\ state' = [state EXCEPT ![r] = st]
         /\ db' = SaveAnalysisState(db, r, st)
  /\ pc' = [pc EXCEPT ![r] = "raised"]
  /\ UNCHANGED <<nonPipelineVars, input, stage, bq, calls>>

\* lines 113-127: final save, then the result is returned
FinalSave(r) ==
  /\ pc[r] = "final_save"
  /\ db' = SaveAnalysisState(db, r, state[r])
  /\ pc' = [pc EXCEPT ![r] = "returned"]
  /\ UNCHANGED <<nonPipelineVars, input, stage, state, bq, calls, failed, sink>>

RunStep(r) ==
  \/ Start(r)
  \/ WorkerReturn(r)
  \/ Complete(r)
  \/ WorkerRaise(r)
  \/ \E res \in {"ok", "errors"} : SaveToBigQuery(r, res)
  \/ SaveToBigQueryRaise(r)
  \/ FinalSave(r)

Next ==
  \/ \E r \in Runs, ext \in FileTypes : Submit(r, ext)
  \/ \E r \in Runs : RunStep(r)

Spec == Init /\ [][Next]_vars

\* the event loop keeps running a background task as long as one can take
\* a step: every call a run makes (worker, store, sink) returns or raises
FairSpec == Spec /\ WF_vars(\E r \in Runs : RunStep(r))

\* the ids a client may ask about: the ids handed out and one never handed
\* out
LookupIds == {0} \cup Runs

NotFound == [status |-> "not_found"]

GetAnalysisStatusMut(id) ==
  /\ reply' = [id |-> id,
               result |-> IF id \in Runs /\ state[id] # EmptyDict
                          THEN state[id] ELSE NotFound]
  /\ UNCHANGED <<pvars, evars, svars, vvars, lpc, lstore, llimit, lres>>

\* get_analysis_status, lines 172-180: read the document, return its dict or
\* the not_found dict
GetAnalysisStatus(id) ==
  /\ reply' = [id |-> id,
               result |-> IF Has(db, id) THEN db[id] ELSE NotFound]
  /\ UNCHANGED <<pvars, evars, svars, vvars, lpc, lstore, llimit, lres>>

ApiNext ==
  \/ Next
  \/ \E id \in LookupIds : GetAnalysisStatus(id)

\* the pipeline together with clients asking for the status of runs
ApiSpec == Init /\ [][ApiNext]_vars

TypeOK ==
  /\ pc \in [Runs -> {"idle", "queued", "worker", "sink", "final_save",
                      "returned", "raised"}]
  /\ input \in [Runs -> FileTypes \cup {"none"}]
  /\ stage \in [Runs -> 0..Len(Stages)]
  /\ DOMAIN db \subseteq Runs
  /\ failed \in [Runs -> {"none", "sink"} \cup {Stages[k] : k \in StageIdx}]
  /\ sink \in [Runs -> {"none", "ok", "errors", "raised"}]

(***************************************************************************)
(* ScoutAgent.enrich_startup_data (src/agents/scout_agent.py): five        *)
(* lookups run as concurrent tasks and are joined by asyncio.gather.  How  *)
(* a lookup ends (with a value or with an exception) is left open here.    *)
(***************************************************************************)
\* the keys of the result the lookups are stored under, lines 44-48
EnrichKeys ==
  <<"founder_verification", "competitor_analysis", "market_validation",
    "technology_analysis", "news_sentiment">>

\* founder names a profile may carry; "" is a founder without a name
FounderNames == {"", "Ada"}

FounderLists ==
  UNION {[1..n -> [name : FounderNames]] : n \in 0..MaxFounders}

\* LibrarianAgent.extract_structured_data, lines 36-47: the shape of a
\* startup profile
StartupProfile(founders) ==
  [x \in {"company_name", "problem_statement", "solution_description",
          "founders", "market_data", "traction_metrics", "financials",
          "competitive_landscape", "technology_stack",
          "extraction_confidence"} |->
     CASE x = "company_name"          -> "Acme"
       [] x = "founders"              -> founders
       [] x = "market_data"           -> [tam |-> "unknown"]
       [] x = "technology_stack"      -> <<"python">>
       [] x = "competitive_landscape" -> << >>
       [] OTHER                       -> x]

EnrichProfiles == {StartupProfile(f) : f \in FounderLists}

\* the argument each lookup is called with, lines 33-37
LookupArg(i, profile) ==
  CASE i = 1 -> profile["founders"]
    [] i = 2 -> profile["company_name"]
    [] i = 3 -> profile["market_data"]
    [] i = 4 -> profile["technology_stack"]
    [] i = 5 -> profile["company_name"]

\* _verify_founder_credentials, lines 54-70: one entry per founder that has
\* a name
FounderVerification(founders) ==
  LET named == {founders[j]["name"] : j \in DOMAIN founders} \ {""}
  IN  [n \in named |-> [verification_of |-> n]]

\* the value a lookup returns when it does not raise
LookupValue(i, profile) ==
  IF i = 1
    THEN FounderVerification(LookupArg(1, profile))
    ELSE [lookup |-> EnrichKeys[i], of |-> LookupArg(i, profile)]

\* the exception object a failed lookup leaves in the results of gather
LookupException(i) ==
  [exception |-> EnrichKeys[i]]

IsException(v) ==
  DOMAIN v = {"exception"}

\* asyncio.gather(*enrichment_tasks, return_exceptions=True), line 40: the
\* entry of a task in the list of results
GatherEntry(i, st, profile) ==
  CASE st = "done"   -> LookupValue(i, profile)
    [] st = "failed" -> LookupException(i)
    [] OTHER         -> [pending |-> EnrichKeys[i]]

\* mutation: gather is called without return_exceptions
ReturnExceptionsMut == FALSE

\* the return_exceptions argument of asyncio.gather, line 40
ReturnExceptions == TRUE

\* asyncio.gather: without return_exceptions the first exception of a task
\* is raised to the awaiting caller
GatherRaises(tasks) ==
  ~ReturnExceptions /\ \E i \in Lookups : tasks[i] = "failed"

\* mutation: gather returns as soon as one task has ended
GatherDoneMut(tasks) ==
  \E i \in Lookups : tasks[i] \in {"done", "failed"}

\* the await of gather ends when every task has ended, line 40
GatherDone(tasks) ==
  \A i \in Lookups : tasks[i] \in {"done", "failed"}

\* "<result> if not isinstance(<result>, Exception) else {}", lines 44-48
EnrichEntry(res) ==
  IF IsException(res) THEN EmptyDict ELSE res

\* mutation: two indices of enrichment_results are exchanged
EnrichUpdateMut(results, ts) ==
  [x \in {EnrichKeys[i] : i \in Lookups} \cup {"enrichment_timestamp"} |->
     IF x = "enrichment_timestamp" THEN ts
     ELSE LET i == CHOOSE j \in Lookups : EnrichKeys[j] = x
              src == IF i = 3 THEN 4 ELSE IF i = 4 THEN 3 ELSE i
          IN  EnrichEntry(results[src])]

\* the dict passed to enriched_profile.update, lines 43-50
EnrichUpdate(results, ts) ==
  [x \in {EnrichKeys[i] : i \in Lookups} \cup {"enrichment_timestamp"} |->
     IF x = "enrichment_timestamp" THEN ts
     ELSE LET i == CHOOSE j \in Lookups : EnrichKeys[j] = x
          IN  EnrichEntry(results[i])]

\* mutation: the result is the profile object itself, updated in place
EnrichMergeMut(profile, upd) ==
  [input  |-> MergeDoc(profile, upd),
   result |-> MergeDoc(profile, upd)]

\* enriched_profile = startup_profile.copy(); enriched_profile.update(...),
\* lines 42-52: the input object afterwards, and the dict returned
EnrichMerge(profile, upd) ==
  [input  |-> profile,
   result |-> MergeDoc(profile, upd)]

\* enrich_startup_data is called with a profile: the five coroutines are
\* created and handed to gather, lines 32-40
EnrichCall(profile) ==
  /\ epc = "idle"
  /\ epc' = "gather"
  /\ eprofile' = profile
  /\ eorig' = profile
  /\ etask' = [i \in Lookups |-> "created"]
  /\ UNCHANGED <<nonEnrichVars, eresult>>

\* the event loop starts a lookup task
LookupStart(i) ==
  /\ epc = "gather"
  /\ etask[i] = "created"
  /\ etask' = [etask EXCEPT ![i] = "running"]
  /\ UNCHANGED <<nonEnrichVars, epc, eprofile, eorig, eresult>>

\* a lookup returns its value
LookupReturn(i) ==
  /\ epc = "gather"
  /\ etask[i] = "running"
  /\ etask' = [etask EXCEPT ![i] = "done"]
  /\ UNCHANGED <<nonEnrichVars, epc, eprofile, eorig, eresult>>

\* a lookup raises
LookupRaise(i) ==
  /\ epc = "gather"
  /\ etask[i] = "running"
  /\ etask' = [etask EXCEPT ![i] = "failed"]
  /\ UNCHANGED <<nonEnrichVars, epc, eprofile, eorig, eresult>>

\* the await of gather ends: with the list of results, from which the
\* enriched profile is built and returned (lines 40-52), or with an exception
\* of gather, which enrich_startup_data does not catch
EnrichReturn ==
  /\ epc = "gather"
  /\ GatherDone(etask) \/ GatherRaises(etask)
  /\ IF GatherRaises(etask)
       THEN /\ epc' = "raised"
            /\ UNCHANGED <<eprofile, eresult>>
       ELSE LET results == [i \in Lookups |-> GatherEntry(i, etask[i], eprofile)]
                merged  == EnrichMerge(eprofile,
                             EnrichUpdate(results, UtcNow("scout", "enriched")))
            IN  /\ epc' = "returned"
                /\ eprofile' = merged.input
                /\ eresult' = merged.result
  /\ UNCHANGED <<nonEnrichVars, eorig, etask>>

EnrichInit ==
  /\ PipelineInit
  /\ EnrichIdle
  /\ ScoreIdle
  /\ ApiIdle
  /\ VerifyIdle

EnrichNext ==
  \/ \E profile \in EnrichProfiles : EnrichCall(profile)
  \/ \E i \in Lookups : LookupStart(i)
  \/ \E i \in Lookups : LookupReturn(i)
  \/ \E i \in Lookups : LookupRaise(i)
  \/ EnrichReturn

EnrichSpec == EnrichInit /\ [][EnrichNext]_vars

(***************************************************************************)
(* AnalystAgent score aggregation (src/agents/analyst_agent.py).  Scores   *)
(* are exact decimals: a component score, a risk score and a weight are    *)
(* held in thousandths (0.5 is 500), weighted_score in millionths and      *)
(* overall_score in thousand-millionths (0.7 is 700000000), so that the    *)
(* products of the code are integer products.  The rounding of binary      *)
(* floating point is not part of the model.  TAM is in dollars.            *)
(***************************************************************************)
Min(a, b) == IF a <= b THEN a ELSE b

Abs(a) == IF a >= 0 THEN a ELSE 0 - a

\* dict.get(key, default)
Get(d, k, default) == IF Has(d, k) THEN d[k] ELSE default

ThesisWeightsMut ==
  [team |-> 300, market |-> 400, traction |-> 200, moat |-> 100]

ThesisWeights ==
  [team |-> 400, market |-> 300, traction |-> 200, moat |-> 100]

\* str.lower() on the background texts the model draws from
Lower(text) ==
  CASE text = "EX-Meta" -> "ex-meta"
    [] text = "Student" -> "student"
    [] OTHER -> text

\* "ex-" in text
ContainsExMarker(text) == text \in {"ex-meta"}

RECURSIVE ExperienceBonus(_, _)
\* the first loop of _score_team over founders[j..]
ExperienceBonus(founders, j) ==
  IF j > Len(founders) THEN 0
  ELSE (IF Get(founders[j], "experience_years", 0) > 5 THEN 100 ELSE 0)
       + (IF ContainsExMarker(Lower(Get(founders[j], "background", "")))
          THEN 100 ELSE 0)
       + ExperienceBonus(founders, j + 1)

RECURSIVE VerificationBonus(_, _)
\* the second loop of _score_team over the entries named in names
VerificationBonus(verification, names) ==
  IF names = {} THEN 0
  ELSE LET n == CHOOSE x \in names : TRUE
       IN ((Get(verification[n], "verification_score", 500) - 500) * 200)
            \div 1000
          + VerificationBonus(verification, names \ {n})

ScoreTeam(profile) ==
  LET founders == Get(profile, "founders", << >>)
      verification == Get(profile, "founder_verification", EmptyDict)
  IN IF founders = << >> THEN 300
     ELSE Min(500 + ExperienceBonus(founders, 1)
                  + VerificationBonus(verification, DOMAIN verification),
              1000)

\* tam > 1000000000 raises TypeError when tam is None
ScoreMarketRaises(profile) ==
  Get(Get(profile, "market_data", EmptyDict), "tam", Num(0)) = None

ScoreMarket(profile) ==
  LET market_data == Get(profile, "market_data", EmptyDict)
      market_validation == Get(profile, "market_validation", EmptyDict)
      tam == Get(market_data, "tam", Num(0))[1]
      bonus == IF tam > 1000000000 THEN 200
               ELSE IF tam > 100000000 THEN 100 ELSE 0
      validation_score == Get(market_validation, "addressable_market_score", 500)
  IN Min(500 + bonus + ((validation_score - 500) * 300) \div 1000, 1000)

ScoreMoat(profile) == 500

CalculateInvestmentScoreRaises(profile, quant, risk) ==
  ScoreMarketRaises(profile)

CalculateInvestmentScore(profile, quant, risk) ==
  LET team_score == ScoreTeam(profile)
      market_score == ScoreMarket(profile)
      traction_score == Get(quant, "overall_score", 500)
      moat_score == ScoreMoat(profile)
      weighted_score == team_score * thesis_weights["team"]
                        + market_score * thesis_weights["market"]
                        + traction_score * thesis_weights["traction"]
                        + moat_score * thesis_weights["moat"]
      risk_adjustment == 1000 - Get(risk, "overall_risk_score", 500)
      final_score == weighted_score * risk_adjustment
  IN [overall_score |-> final_score,
      component_scores |-> [team |-> team_score, market |-> market_score,
                            traction |-> traction_score, moat |-> moat_score],
      risk_adjustment |-> risk_adjustment,
      weighted_score |-> weighted_score]

DecisionMut(overall_score, risk_score) ==
  IF overall_score > 700000000 /\ risk_score <= 400 THEN "PRIORITIZE"
  ELSE IF overall_score > 500000000 /\ risk_score <= 600 THEN "REVIEW"
  ELSE "PASS"

Decision(overall_score, risk_score) ==
  IF overall_score >= 700000000 /\ risk_score <= 400 THEN "PRIORITIZE"
  ELSE IF overall_score >= 500000000 /\ risk_score <= 600 THEN "REVIEW"
  ELSE "PASS"

Rationale(decision) ==
  CASE decision = "PRIORITIZE" -> "Strong opportunity with manageable risk"
    [] decision = "REVIEW" -> "Potential opportunity requiring deeper analysis"
    [] OTHER -> "Insufficient opportunity or excessive risk"

CalculateRecommendationConfidenceMut(score, risk) ==
  IF Abs(score - 500000000) >= 300000000 THEN "HIGH"
  ELSE IF Abs(score - 500000000) >= 150000000 THEN "MEDIUM"
  ELSE "LOW"

CalculateRecommendationConfidence(score, risk) ==
  IF Abs(score - 500000000) > 300000000 THEN "HIGH"
  ELSE IF Abs(score - 500000000) > 150000000 THEN "MEDIUM"
  ELSE "LOW"

GenerateNextSteps(decision) ==
  CASE decision = "PRIORITIZE" ->
         <<"Schedule founder meeting", "Begin formal due diligence",
           "Prepare term sheet", "Conduct reference checks">>
    [] decision = "REVIEW" ->
         <<"Deeper market analysis", "Customer interviews",
           "Technical assessment", "Follow-up with founders">>
    [] OTHER ->
         <<"Send polite decline", "Monitor for future progress",
           "Maintain relationship", "Archive analysis">>

GenerateRecommendation(investment_score, risk_analysis) ==
  LET overall_score == Get(investment_score, "overall_score", 0)
      risk_score == Get(risk_analysis, "overall_risk_score", 500)
      decision == Decision(overall_score, risk_score)
      questions == Get(risk_analysis, "due_diligence_questions", << >>)
  IN [decision |-> decision,
      rationale |-> Rationale(decision),
      confidence |-> CalculateRecommendationConfidence(overall_score,
                                                       risk_score),
      next_steps |-> GenerateNextSteps(decision),
      key_questions |-> SubSeq(questions, 1, Min(Len(questions), 5))]

\* the founders, as the extraction prompt of LibrarianAgent shapes them
ScoredFounders ==
  [name : {"Ada"}, experience_years : {5, 6},
   background : {"EX-Meta", "Student"}]

ScoredFounderLists ==
  UNION {[1..n -> ScoredFounders] : n \in 0..MaxFounders}

\* names of verified founders, the keys of founder_verification
VerifiedNames == <<"Ada", "Bo", "Cy", "Di", "Ed", "Flo", "Gus", "Hal">>

\* founder_verification: one record per verified name
VerificationDicts ==
  {[n \in {VerifiedNames[i] : i \in 1..k} |-> [verification_score |-> v]] :
     k \in 0..MaxVerifications, v \in {0, 1000}}

\* what _extract_market_info returns when the model's answer is not JSON
MarketInfoDefault ==
  [tam |-> None, sam |-> None, som |-> None, target_market |-> "",
   market_growth_rate |-> None]

MarketDataDicts ==
  {EmptyDict, MarketInfoDefault}
  \cup {[tam |-> Num(n)] :
          n \in {0, 100000000, 100000001, 1000000000, 1000000001}}

MarketValidationDicts ==
  {EmptyDict} \cup {[addressable_market_score |-> v] : v \in {0, 700}}

ScoredProfiles ==
  [founders : ScoredFounderLists, founder_verification : VerificationDicts,
   market_data : MarketDataDicts, market_validation : MarketValidationDicts]

QuantDicts == {EmptyDict} \cup {[overall_score |-> q] : q \in {600, 950}}

RiskDicts == {EmptyDict} \cup {[overall_risk_score |-> r] : r \in {0, 300}}

\* the arguments synthesize_analysis hands to _calculate_investment_score
ScoreInputs ==
  [fn : {"calculate_investment_score"}, profile : ScoredProfiles,
   quant : QuantDicts, risk : RiskDicts]

\* arguments of a direct call of _generate_recommendation, on and around the
\* thresholds of its decision logic
RecommendInputs ==
  [fn : {"generate_recommendation"},
   investment_score :
     {EmptyDict} \cup {[overall_score |-> s] :
                         s \in {199999999, 200000000, 349999999, 350000000,
                                490000000, 499999999, 500000000, 650000000,
                                650000001, 699999999, 700000000, 800000000,
                                800000001, 1000000000}},
   risk : {EmptyDict} \cup {[overall_risk_score |-> r] :
                              r \in {300, 400, 401, 600, 601}}]

RiskCategoriesMut ==
  [team_risk |-> 300, market_risk |-> 200, financial_risk |-> 200,
   execution_risk |-> 150, competitive_risk |-> 100, technical_risk |-> 100]

\* SkepticAgent.risk_categories as __init__ sets it (weights in thousandths)
RiskCategories ==
  [team_risk |-> 250, market_risk |-> 200, financial_risk |-> 200,
   execution_risk |-> 150, competitive_risk |-> 100, technical_risk |-> 100]

\* the keys under which analyze_risks files the six analyses
AssessmentKeys ==
  {"team_risks", "market_risks", "financial_risks", "execution_risks",
   "competitive_risks", "technical_risks"}

RECURSIVE TotalRisk(_, _)
\* the loop of _calculate_overall_risk over the categories in cats
TotalRisk(risk_assessment, cats) ==
  IF cats = {} THEN 0
  ELSE LET category == CHOOSE c \in cats : TRUE
           category_risk == Get(Get(risk_assessment, category, EmptyDict),
                                "risk_score", 500)
       IN category_risk * risk_categories[category]
          + TotalRisk(risk_assessment, cats \ {category})

CalculateOverallRisk(risk_assessment) ==
  TotalRisk(risk_assessment, DOMAIN risk_categories)

\* analyze_risks names asyncio, which skeptic_agent.py never imports: the
\* call raises NameError before any analysis is started
AnalyzeRisksRaises == TRUE

\* one analysis of a category, as the six _analyze_* methods return it
RiskAnalyses ==
  {EmptyDict} \cup {[risk_score |-> v] : v \in {500, 800}}
  \cup {[risk_score |-> v, risk_factors |-> <<"Short runway">>] :
          v \in {700, 701}}

\* the order in which analyze_risks inserts the analyses (lines 35-42), which
\* is the order in which a loop over risk_assessment.items() meets them
AssessmentOrder ==
  <<"team_risks", "market_risks", "financial_risks", "execution_risks",
    "competitive_risks", "technical_risks">>

\* category.replace('_', ' ')
SpacedName(category) ==
  CASE category = "team_risks" -> "team risks"
    [] category = "market_risks" -> "market risks"
    [] category = "financial_risks" -> "financial risks"
    [] category = "execution_risks" -> "execution risks"
    [] category = "competitive_risks" -> "competitive risks"
    [] category = "technical_risks" -> "technical risks"
    [] OTHER -> category

HighRiskMut(risk_score) == risk_score >= 700

\* risk_score > 0.7
HighRisk(risk_score) == risk_score > 700

RECURSIVE RedFlagsFrom(_, _)
\* the loop of _identify_red_flags from the j-th category on
RedFlagsFrom(risk_assessment, j) ==
  IF j > Len(AssessmentOrder) THEN << >>
  ELSE LET category == AssessmentOrder[j]
           rest == RedFlagsFrom(risk_assessment, j + 1)
       IN IF ~Has(risk_assessment, category) THEN rest
          ELSE LET analysis == risk_assessment[category]
               IN IF HighRisk(Get(analysis, "risk_score", 0))
                  THEN <<[category |-> category,
                          severity |-> "high",
                          description |-> <<"High risk identified in",
                                            SpacedName(category)>>,
                          risk_factors |-> Get(analysis, "risk_factors",
                                               << >>)]>> \o rest
                  ELSE rest

IdentifyRedFlags(profile, risk_assessment) == RedFlagsFrom(risk_assessment, 1)

\* a risk_assessment as analyze_risks builds it: all six keys present
RiskAssessments == [AssessmentKeys -> RiskAnalyses]

OverallRiskInputs ==
  [fn : {"calculate_overall_risk"}, risk_assessment : RiskAssessments]

AnalyzeRisksInputs ==
  [fn : {"analyze_risks"},
   profile : {p \in ScoredProfiles :
                /\ p.founder_verification = EmptyDict
                /\ p.market_data = EmptyDict
                /\ p.market_validation = EmptyDict},
   quant : QuantDicts]

CalculateInvestmentScoreCallMut ==
  /\ spc = "idle"
  /\ sin.fn = "calculate_investment_score"
  /\ IF CalculateInvestmentScoreRaises(sin.profile, sin.quant, sin.risk)
     THEN /\ spc' = "raised"
          /\ UNCHANGED sscore
     ELSE /\ spc' = "scored"
          /\ sscore' = CalculateInvestmentScore(sin.profile, sin.quant,
                                                sin.risk)
  /\ thesis_weights' = ThesisWeightsMut
  /\ UNCHANGED <<nonScoreVars, sflags, squant, sin, srec, srisk, sfirst, risk_categories>>

\* synthesize_analysis, lines 27-29
CalculateInvestmentScoreCall ==
  /\ spc = "idle"
  /\ sin.fn = "calculate_investment_score"
  /\ IF CalculateInvestmentScoreRaises(sin.profile, sin.quant, sin.risk)
     THEN /\ spc' = "raised"
          /\ UNCHANGED sscore
     ELSE /\ spc' = "scored"
          /\ sscore' = CalculateInvestmentScore(sin.profile, sin.quant,
                                                sin.risk)
  /\ UNCHANGED <<nonScoreVars, sflags, squant, sin, srec, srisk, sfirst, thesis_weights,
                 risk_categories>>

\* synthesize_analysis, lines 43-45, or a call with given arguments
GenerateRecommendationCall ==
  /\ \/ /\ spc = "scored"
        /\ srec' = GenerateRecommendation(sscore, sin.risk)
        /\ UNCHANGED sscore
     \/ /\ spc = "idle"
        /\ sin.fn = "generate_recommendation"
        /\ sscore' = sin.investment_score
        /\ srec' = GenerateRecommendation(sin.investment_score, sin.risk)
  /\ spc' = "recommended"
  /\ UNCHANGED <<nonScoreVars, sflags, squant, sin, srisk, sfirst, thesis_weights,
                 risk_categories>>

\* the same agent is invoked a second time with the same arguments
InvokeAgain ==
  /\ spc = "recommended"
  /\ sin.fn = "calculate_investment_score"
  /\ sfirst = EmptyDict
  /\ sfirst' = [investment_score |-> sscore, recommendation |-> srec]
  /\ spc' = "idle"
  /\ sscore' = EmptyDict
  /\ srec' = EmptyDict
  /\ UNCHANGED <<nonScoreVars, sflags, squant, sin, srisk, thesis_weights, risk_categories>>

\* a call of _calculate_overall_risk on a given risk_assessment
CalculateOverallRiskCall ==
  /\ spc = "idle"
  /\ sin.fn = "calculate_overall_risk"
  /\ srisk' = Num(CalculateOverallRisk(sin.risk_assessment))
  /\ spc' = "risk_scored"
  /\ UNCHANGED <<nonScoreVars, sflags, squant, sin, sscore, srec, sfirst, thesis_weights,
                 risk_categories>>

\* analyze_risks, lines 47-48: the red flags of the assessment whose overall
\* risk was just computed
IdentifyRedFlagsCall ==
  /\ spc = "risk_scored"
  /\ sflags' = IdentifyRedFlags(EmptyDict, sin.risk_assessment)
  /\ spc' = "flagged"
  /\ UNCHANGED <<nonScoreVars, squant, sin, sscore, srec, srisk, sfirst,
                 thesis_weights, risk_categories>>

\* a call of analyze_risks
AnalyzeRisksCall ==
  /\ spc = "idle"
  /\ sin.fn = "analyze_risks"
  /\ AnalyzeRisksRaises
  /\ spc' = "raised"
  /\ UNCHANGED <<nonScoreVars, sflags, squant, sin, sscore, srec, srisk, sfirst,
                 thesis_weights, risk_categories>>

\* QuantAgent (src/agents/quant_agent.py).  Metric values and benchmark
\* thresholds are in tenths (1.5 is 15), percentiles are whole percents and
\* the weights of _calculate_overall_score are in tenths (0.3 is 3).
Metrics == {"mrr_growth_rate", "cac_ltv_ratio", "churn_rate", "burn_multiple"}

\* _get_default_benchmarks, lines 111-116
DefaultBenchmarks ==
  [m \in Metrics |->
     CASE m = "mrr_growth_rate" -> [p25 |-> 100, p50 |-> 200, p75 |-> 350,
                                    p90 |-> 500]
       [] m = "cac_ltv_ratio"   -> [p25 |-> 20, p50 |-> 30, p75 |-> 50,
                                    p90 |-> 80]
       [] m = "churn_rate"      -> [p25 |-> 150, p50 |-> 100, p75 |-> 70,
                                    p90 |-> 50]
       [] m = "burn_multiple"   -> [p25 |-> 30, p50 |-> 20, p75 |-> 15,
                                    p90 |-> 10]]

\* rows of the benchmark_data table (lines 93-100) whose thresholds all rise
\* with the percentile
TableBenchmarks ==
  [m \in Metrics |->
     CASE m = "churn_rate"    -> [p25 |-> 50, p50 |-> 70, p75 |-> 100,
                                  p90 |-> 150]
       [] m = "burn_multiple" -> [p25 |-> 10, p50 |-> 15, p75 |-> 20,
                                  p90 |-> 30]
       [] OTHER               -> DefaultBenchmarks[m]]

\* the benchmark data _get_benchmark_data may return; lines 103-104 and 117:
\* nothing at all for a stage other than seed
BenchmarkData == {DefaultBenchmarks, TableBenchmarks, EmptyDict}

\* _calculate_percentile, lines 173-184
CalculatePercentile(value, benchmark) ==
  IF value <= benchmark.p25 THEN 25
  ELSE IF value <= benchmark.p50 THEN 50
  ELSE IF value <= benchmark.p75 THEN 75
  ELSE IF value <= benchmark.p90 THEN 90
  ELSE 95

\* _calculate_percentile_rankings, lines 135-145: metrics maps each metric
\* to None or to its value
CalculatePercentileRankings(metrics, benchmarks) ==
  [m \in {x \in DOMAIN metrics : metrics[x] # None /\ Has(benchmarks, x)} |->
     [value      |-> metrics[m][1],
      percentile |-> CalculatePercentile(metrics[m][1], benchmarks[m]),
      benchmark  |-> benchmarks[m]]]

\* lines 226-231
QuantWeights ==
  [m \in Metrics |-> IF m \in {"mrr_growth_rate", "cac_ltv_ratio"} THEN 3
                                                                    ELSE 2]

\* the sum of f over the set S
RECURSIVE SumOver(_, _)
SumOver(S, f) ==
  IF S = {} THEN 0
  ELSE LET x == CHOOSE y \in S : TRUE IN f[x] + SumOver(S \ {x}, f)

\* a result of _calculate_overall_score: the number n / d
Half == <<1, 2>>

\* mutation: the weighted sum is not divided by the weight that was used
CalculateOverallScoreMut(rankings) ==
  IF rankings = EmptyDict THEN Half
  ELSE LET ranked == DOMAIN rankings \cap DOMAIN QuantWeights
           weighted_score ==
             SumOver(ranked, [m \in ranked |->
                                rankings[m].percentile * QuantWeights[m]])
           total_weight == SumOver(ranked, [m \in ranked |-> QuantWeights[m]])
       IN IF total_weight > 0 THEN <<weighted_score, 100 * 10>> ELSE Half

\* _calculate_overall_score, lines 220-245: weighted_score is the sum of
\* percentile / 100 x weight, kept here as the sum of percentile x weight
\* over 100
CalculateOverallScore(rankings) ==
  IF rankings = EmptyDict THEN Half
  ELSE LET ranked == DOMAIN rankings \cap DOMAIN QuantWeights
           weighted_score ==
             SumOver(ranked, [m \in ranked |->
                                rankings[m].percentile * QuantWeights[m]])
           total_weight == SumOver(ranked, [m \in ranked |-> QuantWeights[m]])
       IN IF total_weight > 0 THEN <<weighted_score, 100 * total_weight>>
                              ELSE Half

\* _generate_quantitative_analysis builds its prompt with json.dumps (lines
\* 193-197) and quant_agent.py never imports json: NameError
GenerateQuantitativeAnalysisRaises == TRUE

\* the values a metric may have: the thresholds of its benchmarks and one
\* value above them all
MetricValues(m) ==
  LET b == DefaultBenchmarks[m]
  IN {b.p25, b.p50, b.p75, b.p90, b.p25 + b.p50 + b.p75 + b.p90}

MetricDicts ==
  {f \in [Metrics -> {None} \cup
                       {Num(v) : v \in UNION {MetricValues(m) : m \in Metrics}}] :
     \A m \in Metrics : f[m] # None => f[m][1] \in MetricValues(m)}

\* the metrics of a profile with the benchmark data fetched for it, and the
\* rankings lines 27-29 compute from them; and rankings of a metric the
\* weights do not name
QuantInputs ==
  {[fn |-> "calculate_overall_score", metrics |-> f, benchmarks |-> b,
    rankings |-> CalculatePercentileRankings(f, b)] :
     f \in MetricDicts, b \in BenchmarkData}
  \cup {[fn |-> "calculate_overall_score", metrics |-> EmptyDict,
         benchmarks |-> EmptyDict,
         rankings |-> [nps |-> [value |-> 400, percentile |-> 95,
                                benchmark |-> DefaultBenchmarks.churn_rate]]]}

\* benchmark_startup, line 42, or a call with given rankings
CalculateOverallScoreCall ==
  /\ spc = "idle"
  /\ sin.fn = "calculate_overall_score"
  /\ squant' = CalculateOverallScore(sin.rankings)
  /\ spc' = "quant_scored"
  /\ UNCHANGED <<nonScoreVars, sin, sscore, srec, srisk, sfirst, sflags,
                 thesis_weights, risk_categories>>

\* benchmark_startup, lines 20-34: the rankings are computed and then
\* _generate_quantitative_analysis raises
BenchmarkStartupCall ==
  /\ spc = "idle"
  /\ sin.fn = "calculate_overall_score"
  /\ sin.metrics # EmptyDict
  /\ GenerateQuantitativeAnalysisRaises
  /\ spc' = "raised"
  /\ UNCHANGED <<nonScoreVars, sin, sscore, srec, srisk, sfirst, sflags,
                 squant, thesis_weights, risk_categories>>

ScoreInit ==
  /\ PipelineInit
  /\ EnrichIdle
  /\ ApiIdle
  /\ VerifyIdle
  /\ spc = "idle"
  /\ sin \in ScoreInputs \cup RecommendInputs \cup OverallRiskInputs
               \cup AnalyzeRisksInputs \cup QuantInputs
  /\ sscore = EmptyDict
  /\ srec = EmptyDict
  /\ srisk = None
  /\ sfirst = EmptyDict
  /\ sflags = << >>
  /\ squant = None
  /\ thesis_weights = ThesisWeights
  /\ risk_categories = RiskCategories

ScoreNext ==
  \/ CalculateInvestmentScoreCall
  \/ GenerateRecommendationCall
  \/ CalculateOverallRiskCall
  \/ IdentifyRedFlagsCall
  \/ AnalyzeRisksCall
  \/ InvokeAgain
  \/ CalculateOverallScoreCall
  \/ BenchmarkStartupCall

ScoreSpec == ScoreInit /\ [][ScoreNext]_vars

(***************************************************************************)
(* WorkflowManager.list_recent_analyses: a query on the analysis_states     *)
(* collection, ordered by started_at descending and cut at limit.  Here the *)
(* started_at stamps are numbers (later is larger), which is the order of   *)
(* the ISO strings utcnow().isoformat() writes; two runs may carry the same *)
(* stamp.                                                                   *)
(***************************************************************************)
\* what a stored run may look like beside its id and stamp
DocShapes == {"started", "extracted", "completed", "error"}

\* the document of run id with the given shape, started at t
StoredDoc(id, shape, t) ==
  LET base == [submission_id |-> id, started_at |-> t,
               status |-> CASE shape = "completed" -> "completed"
                            [] shape = "error" -> "error"
                            [] OTHER -> "processing"]
      profile == [company_name |-> "Acme"]
  IN CASE shape = "extracted" -> DictSet(base, "startup_profile", profile)
       [] shape = "completed" ->
            DictSet(DictSet(base, "startup_profile", profile),
                    "final_analysis",
                    [recommendation |-> [decision |-> "REVIEW"]])
       [] OTHER -> base

\* contents of the collection: the runs 1..k, each stored in some shape
ListStores ==
  UNION {{[id \in 1..k |-> StoredDoc(id, f[id][1], f[id][2])] :
            f \in [1..k -> DocShapes \X (1..MaxRuns)]} : k \in 0..MaxRuns}

\* the limits a client may pass
ListLimits == 1..(MaxRuns + 1)

InOrderMut(a, b) == a <= b

\* direction=firestore.Query.DESCENDING: a may come before b
InOrder(a, b) == a >= b

\* the orders in which the query may stream the documents of store
QueryOrders(store) ==
  LET ids == DOMAIN store
      n == Cardinality(ids)
  IN {q \in [1..n -> ids] :
        /\ \A i, j \in 1..n : i # j => q[i] # q[j]
        /\ \A i, j \in 1..n :
             i < j => InOrder(store[q[i]].started_at, store[q[j]].started_at)}

\* the summary the loop appends for one streamed document (lines 193-199)
Summary(id, data) ==
  [submission_id |-> id,
   company_name |-> Get(Get(data, "startup_profile", EmptyDict),
                        "company_name", "Unknown"),
   status |-> Get(data, "status", "unknown"),
   started_at |-> Get(data, "started_at", None),
   recommendation |-> Get(Get(Get(data, "final_analysis", EmptyDict),
                              "recommendation", EmptyDict),
                          "decision", "Pending")]

ListRecentAnalyses ==
  /\ lpc = "idle"
  /\ \E q \in QueryOrders(lstore) :
       lres' = [i \in 1..Min(llimit, Len(q)) |-> Summary(q[i], lstore[q[i]])]
  /\ lpc' = "returned"
  /\ UNCHANGED <<pvars, evars, svars, vvars, reply, lstore, llimit>>

ListInit ==
  /\ PipelineInit
  /\ EnrichIdle
  /\ ScoreIdle
  /\ VerifyIdle
  /\ reply = EmptyDict
  /\ lpc = "idle"
  /\ lstore \in ListStores
  /\ llimit \in ListLimits
  /\ lres = << >>

ListNext == ListRecentAnalyses

ListSpec == ListInit /\ [][ListNext]_vars

(***************************************************************************)
(* ScoutAgent._verify_founder_credentials (src/agents/scout_agent.py,       *)
(* lines 54-70): a loop over the founders, each named founder looked up and *)
(* then checked by _verify_founder_claims.                                  *)
(***************************************************************************)
\* founders the loop may meet: with an empty name, with a name, and without
\* a name key at all
VerifyFounders ==
  [name : {"", "Ada", "Bo"}, background : {"EX-Meta", "Student"}]
  \cup {[background |-> "Student"]}

VerifyFounderLists ==
  UNION {[1..n -> VerifyFounders] : n \in 0..MaxFounders}

\* _search_linkedin_profile, lines 72-81: a constant mock
SearchLinkedinProfile(founder_name) ==
  [profile_found |-> TRUE, experience |-> << >>, education |-> << >>,
   current_position |-> ""]

\* _verify_founder_claims builds its prompt with json.dumps (line 89), and
\* scout_agent.py never imports json: evaluating the name raises NameError
VerifyFounderClaimsRaises == TRUE

\* what _verify_founder_claims returns when the answer of the model cannot
\* be parsed (line 106)
VerifyFounderClaims(founder_data, linkedin_data) ==
  [verification_score |-> 500, verified_claims |-> << >>,
   discrepancies |-> << >>]

\* lines 59-61: a founder without a name is passed over
VerifySkip ==
  /\ vpc = "loop"
  /\ vidx <= Len(vfounders)
  /\ Get(vfounders[vidx], "name", "") = ""
  /\ vidx' = vidx + 1
  /\ UNCHANGED <<pvars, evars, svars, avars, vpc, vfounders, vresults,
                 vlookups>>

\* lines 63-68: the named founder is looked up and their claims are checked
VerifyFounder ==
  /\ vpc = "loop"
  /\ vidx <= Len(vfounders)
  /\ LET founder == vfounders[vidx]
         founder_name == Get(founder, "name", "")
         linkedin_data == SearchLinkedinProfile(founder_name)
     IN /\ founder_name # ""
        /\ vlookups' = Append(vlookups, founder_name)
        /\ IF VerifyFounderClaimsRaises
           THEN /\ vpc' = "raised"
                /\ UNCHANGED <<vidx, vresults>>
           ELSE /\ vresults' = DictSet(vresults, founder_name,
                                       VerifyFounderClaims(founder,
                                                           linkedin_data))
                /\ vidx' = vidx + 1
                /\ UNCHANGED vpc
  /\ UNCHANGED <<pvars, evars, svars, avars, vfounders>>

\* line 70: the loop is over
VerifyReturn ==
  /\ vpc = "loop"
  /\ vidx > Len(vfounders)
  /\ vpc' = "returned"
  /\ UNCHANGED <<pvars, evars, svars, avars, vfounders, vidx, vresults,
                 vlookups>>

VerifyInit ==
  /\ PipelineInit
  /\ EnrichIdle
  /\ ScoreIdle
  /\ ApiIdle
  /\ vpc = "loop"
  /\ vfounders \in VerifyFounderLists
  /\ vidx = 1
  /\ vresults = EmptyDict
  /\ vlookups = << >>

VerifyNext ==
  \/ VerifySkip
  \/ VerifyFounder
  \/ VerifyReturn

VerifySpec == VerifyInit /\ [][VerifyNext]_vars

(***************************************************************************)
(* Properties.                                                             *)
(***************************************************************************)
StageNames == {Stages[k] : k \in StageIdx}

\* the stages whose output a document holds
OutputsPresent(doc) == {k \in StageIdx : Has(doc, OutputKeys[k])}

IsPrefix(S) == \A k \in S : \A j \in 1..(k - 1) : j \in S

Terminal(r) == pc[r] \in {"returned", "raised"}

WorkerFailed(r) == failed[r] \in StageNames

\* C1: in every stored document the stage outputs present form a prefix of
\* the stage order: no output is present while an earlier one is absent.
C1_OutputsFormPrefix ==
  \A r \in DOMAIN db : IsPrefix(OutputsPresent(db[r]))

C1_Witness ==
  \E r \in DOMAIN db : OutputsPresent(db[r]) = 1..3

\* C2: when a stage worker raises, the stages invoked are exactly those up
\* to the failing one, each once (no later worker, no retry), the run ends
\* by re-raising, and by then a checkpoint with status=error, an error
\* description and failed_at has been written.
C2_WorkerFailureIsFatal ==
  \A r \in Runs :
    WorkerFailed(r) =>
      /\ failed[r] = Stages[stage[r]]
      /\ calls[r] = [i \in 1..stage[r] |-> i]
      /\ pc[r] = "raised"
      /\ r \in DOMAIN db
      /\ db[r]["status"] = "error"
      /\ Has(db[r], "error")
      /\ Has(db[r], "failed_at")

C2_Witness ==
  \E r \in Runs : pc[r] = "raised" /\ failed[r] = Stages[3]

\* C3: after the worker of stage S raised and the error checkpoint was
\* written, the stored document holds no output for S or any later stage,
\* and for each earlier stage exactly the value its worker returned.
C3_FailureLeavesOutputs ==
  \A r \in Runs :
    (WorkerFailed(r) /\ pc[r] = "raised") =>
      \A k \in StageIdx :
        IF k < stage[r]
          THEN /\ Has(db[r], OutputKeys[k])
               /\ db[r][OutputKeys[k]] = WorkerOutput(k, r, input[r])
          ELSE ~Has(db[r], OutputKeys[k])

C3_Witness ==
  \E r \in Runs : pc[r] = "raised" /\ failed[r] = Stages[4]

\* C4: once a run's status is completed or error, it keeps that value.
C4_StatusTerminal ==
  [][\A r \in Runs :
       (Has(state[r], "status") /\ state[r]["status"] \in {"completed", "error"})
         => state'[r]["status"] = state[r]["status"]]_vars

\* C5: a run whose six workers succeeded and whose sink emission failed
\* ends by returning, with a stored status of completed and no error.
C5_SinkFailureNotFatal ==
  \A r \in Runs :
    (Terminal(r) /\ sink[r] \in {"errors", "raised"}) =>
      /\ pc[r] = "returned"
      /\ db[r]["status"] = "completed"
      /\ ~Has(db[r], "error")

\* C6: while the worker of stage X is invoked, the store already holds a
\* checkpoint of the run with status=processing and current_stage=X.
C6_CheckpointBeforeWorker ==
  \A r \in Runs :
    pc[r] = "worker" =>
      /\ r \in DOMAIN db
      /\ db[r]["status"] = "processing"
      /\ db[r]["current_stage"] = Stages[stage[r]]

C6_Witness ==
  \E r \in Runs : pc[r] = "worker" /\ stage[r] = 4

\* C7: a stored document with current_stage = X holds the outputs of all
\* stages before X (all six when current_stage = completed).
C7_StageImpliesEarlierOutputs ==
  \A r \in DOMAIN db :
    /\ \A k \in StageIdx :
         db[r]["current_stage"] = Stages[k] =>
           \A j \in 1..(k - 1) : Has(db[r], OutputKeys[j])
    /\ db[r]["current_stage"] = "completed" =>
         \A j \in StageIdx : Has(db[r], OutputKeys[j])

C7_Witness ==
  \E r \in DOMAIN db : db[r]["current_stage"] = "risk_analysis"

\* C8: once the next step after a successful stage has started (the next
\* stage's worker, or the sink emission after synthesis), the store holds a
\* checkpoint with that stage's output.
C8_OutputCheckpointedBeforeNextStep ==
  \A r \in Runs :
    /\ \A i \in 2..Len(calls[r]) : Has(db[r], OutputKeys[i - 1])
    /\ sink[r] # "none" => Has(db[r], OutputKeys[Len(Stages)])

\* C9: a run whose six workers all succeeded ends with a checkpoint with
\* status=completed, current_stage=completed, completed_at and all six
\* outputs, and the sink emission has been made.
C9_SuccessEndsCompleted ==
  \A r \in Runs :
    (Terminal(r) /\ Len(calls[r]) = Len(Stages) /\ ~WorkerFailed(r)) =>
      /\ db[r]["status"] = "completed"
      /\ db[r]["current_stage"] = "completed"
      /\ Has(db[r], "completed_at")
      /\ OutputsPresent(db[r]) = StageIdx
      /\ sink[r] # "none"

StoredTerminal(r) ==
  r \in DOMAIN db /\ db[r]["status"] \in {"completed", "error"}

Invoked(r) == {calls[r][i] : i \in DOMAIN calls[r]}

Returned(r) == {k \in StageIdx : Has(state[r], OutputKeys[k])}

Raised(r) == {k \in StageIdx : failed[r] = Stages[k]}

\* C11: in a run at most one stage worker is active (invoked and neither
\* returned nor raised), the workers are invoked in the fixed order, each at
\* most once, and each only after the preceding worker returned a result.
C11_StagesSequential ==
  \A r \in Runs :
    /\ Cardinality(Invoked(r) \ (Returned(r) \cup Raised(r))) <= 1
    /\ \A i \in DOMAIN calls[r] : calls[r][i] = i
    /\ \A k \in Invoked(r) : k > 1 => (k - 1) \in Returned(r)

C11_Witness ==
  \E r \in Runs : Len(calls[r]) = Len(Stages) /\ pc[r] = "worker"

\* position of a current_stage value in the fixed order
StageRank(name) ==
  IF \E k \in StageIdx : Stages[k] = name
    THEN CHOOSE k \in StageIdx : Stages[k] = name
    ELSE IF name = "completed" THEN Len(Stages) + 1 ELSE 0

\* C12: from one checkpoint of a run to the next, current_stage never moves
\* backward in the stage order, and once status=error is stored the stored
\* current_stage no longer changes.
C12_StageMonotonic ==
  [][\A r \in DOMAIN db :
       /\ r \in DOMAIN db'
       /\ StageRank(db'[r]["current_stage"]) >= StageRank(db[r]["current_stage"])
       /\ db[r]["status"] = "error" =>
            db'[r]["current_stage"] = db[r]["current_stage"]]_vars

C12_Witness ==
  \E r \in DOMAIN db :
    db[r]["status"] = "error" /\ db[r]["current_stage"] = "enrichment"

\* C13: a stage output present in a checkpoint of a run is present with the
\* same value in every later checkpoint of that run.
C13_OutputsImmutable ==
  [][\A r \in DOMAIN db : \A k \in StageIdx :
       Has(db[r], OutputKeys[k]) =>
         /\ r \in DOMAIN db'
         /\ Has(db'[r], OutputKeys[k])
         /\ db'[r][OutputKeys[k]] = db[r][OutputKeys[k]]]_vars

C13_Witness ==
  \E r \in DOMAIN db :
    /\ OutputsPresent(db[r]) = StageIdx
    /\ db[r]["status"] = "completed"

FailedLookups == {i \in Lookups : etask[i] = "failed"}

\* C15: whatever subset of the lookups failed, enrich_startup_data does not
\* raise, and the result it returns has all five enrichment keys, the key
\* of each failed lookup holding the empty dict.
C15_FailedLookupsDefaulted ==
  /\ epc # "raised"
  /\ epc = "returned" =>
       /\ \A i \in Lookups : Has(eresult, EnrichKeys[i])
       /\ \A i \in FailedLookups : eresult[EnrichKeys[i]] = EmptyDict

C15_Witness ==
  epc = "returned" /\ FailedLookups = {2, 5}

\* C16: whatever the order in which the lookups ran and whichever of them
\* failed, the result holds under the key of each lookup that returned
\* exactly the value that lookup returned.
C16_LookupsIsolated ==
  epc = "returned" =>
    \A i \in Lookups :
      etask[i] = "done" => eresult[EnrichKeys[i]] = LookupValue(i, eorig)

C16_Witness ==
  /\ epc = "returned"
  /\ FailedLookups = {3}
  /\ Len(eorig["founders"]) > 0

\* C17: enrich_startup_data has returned only if each of the five lookups
\* has ended, with a value or with a failure.
C17_ReturnsAfterAllLookups ==
  epc = "returned" => \A i \in Lookups : etask[i] \in {"done", "failed"}

C17_Witness ==
  epc = "returned" /\ FailedLookups = {1}

EnrichAdded == {EnrichKeys[i] : i \in Lookups} \cup {"enrichment_timestamp"}

\* C18: the result holds every field of the input profile with its value,
\* has no other fields than those and the five enrichment keys and
\* enrichment_timestamp, and the input profile object is unchanged.
C18_EnrichmentAdditive ==
  epc = "returned" =>
    /\ \A x \in DOMAIN eorig : Has(eresult, x) /\ eresult[x] = eorig[x]
    /\ DOMAIN eresult = DOMAIN eorig \cup EnrichAdded
    /\ eprofile = eorig

C18_Witness ==
  epc = "returned" /\ Len(eorig["founders"]) = 2 /\ FailedLookups = {}

\* the call of _calculate_investment_score has returned its dict
ScoreReturned ==
  /\ spc \in {"scored", "recommended"}
  /\ sin.fn = "calculate_investment_score"

\* C19: the dict _calculate_investment_score returns has weighted_score =
\* team x 0.40 + market x 0.30 + traction x 0.20 + moat x 0.10 over its own
\* component scores, risk_adjustment = 1 - overall_risk_score and
\* overall_score = weighted_score x risk_adjustment; components 0.8, 0.7,
\* 0.6, 0.5 with risk 0.3 give 0.70, 0.7 and 0.49.
C19_InvestmentScoreArithmetic ==
  ScoreReturned =>
    LET c == sscore.component_scores
    IN /\ sscore.weighted_score
            = c.team * 400 + c.market * 300 + c.traction * 200 + c.moat * 100
       /\ Has(sin.quant, "overall_score")
            => c.traction = sin.quant.overall_score
       /\ Has(sin.risk, "overall_risk_score")
            => sscore.risk_adjustment = 1000 - sin.risk.overall_risk_score
       /\ sscore.overall_score = sscore.weighted_score * sscore.risk_adjustment
       /\ ( /\ c = [team |-> 800, market |-> 700, traction |-> 600,
                    moat |-> 500]
            /\ sin.risk = [overall_risk_score |-> 300] )
            => /\ sscore.weighted_score = 700000
               /\ sscore.risk_adjustment = 700
               /\ sscore.overall_score = 490000000

\* the example of C19 has been computed
C19_Witness ==
  /\ spc = "scored"
  /\ sin.fn = "calculate_investment_score"
  /\ sin.risk = [overall_risk_score |-> 300]
  /\ sscore.component_scores
       = [team |-> 800, market |-> 700, traction |-> 600, moat |-> 500]
  /\ sscore.overall_score = 490000000

\* C20: for a final score and a risk score, _generate_recommendation decides
\* PRIORITIZE when final >= 0.70 and risk <= 0.40, otherwise REVIEW when
\* final >= 0.50 and risk <= 0.60, otherwise PASS; 0.49 with 0.3 is PASS and
\* 0.50 with 0.60 is REVIEW.
C20_RecommendationThresholds ==
  ( /\ spc = "recommended"
    /\ Has(sscore, "overall_score")
    /\ Has(sin.risk, "overall_risk_score") )
  => LET finalScore == sscore.overall_score
         riskScore == sin.risk.overall_risk_score
     IN /\ (finalScore >= 700000000 /\ riskScore <= 400)
             => srec.decision = "PRIORITIZE"
        /\ ( /\ ~(finalScore >= 700000000 /\ riskScore <= 400)
             /\ finalScore >= 500000000
             /\ riskScore <= 600 )
             => srec.decision = "REVIEW"
        /\ ( /\ ~(finalScore >= 700000000 /\ riskScore <= 400)
             /\ ~(finalScore >= 500000000 /\ riskScore <= 600) )
             => srec.decision = "PASS"
        /\ (finalScore = 490000000 /\ riskScore = 300)
             => srec.decision = "PASS"
        /\ (finalScore = 500000000 /\ riskScore = 600)
             => srec.decision = "REVIEW"

\* a recommendation made exactly on both boundaries of REVIEW
C20_Witness ==
  /\ spc = "recommended"
  /\ sscore = [overall_score |-> 500000000]
  /\ sin.risk = [overall_risk_score |-> 600]
  /\ srec.decision = "REVIEW"

\* C21: the score breakdown _calculate_investment_score returns has its
\* four component scores, its risk adjustment and its final score in [0,1].
C21_BreakdownInUnitInterval ==
  ScoreReturned =>
    /\ \A k \in {"team", "market", "traction", "moat"} :
         sscore.component_scores[k] \in 0..1000
    /\ sscore.risk_adjustment \in 0..1000
    /\ sscore.overall_score >= 0
    /\ sscore.overall_score <= 1000000000

\* the risk score the assessment holds for a category, 0.5 when it has none
AssessedRisk(risk_assessment, key) ==
  IF Has(risk_assessment, key) /\ Has(risk_assessment[key], "risk_score")
  THEN risk_assessment[key].risk_score
  ELSE 500

\* C22: the overall risk score is the sum over the six categories of the
\* category's assessed risk score times its weight (team 0.25, market 0.20,
\* financial 0.20, execution 0.15, competitive 0.10, technical 0.10), with
\* 0.5 only for a category the assessment lacks; team 0.8 and the other five
\* at 0.5 give 0.575.
C22_OverallRiskIsWeightedSum ==
  spc = "risk_scored" =>
    LET ra == sin.risk_assessment
    IN srisk = Num(AssessedRisk(ra, "team_risks") * 250
                   + AssessedRisk(ra, "market_risks") * 200
                   + AssessedRisk(ra, "financial_risks") * 200
                   + AssessedRisk(ra, "execution_risks") * 150
                   + AssessedRisk(ra, "competitive_risks") * 100
                   + AssessedRisk(ra, "technical_risks") * 100)

RECURSIVE SumWeights(_, _)
\* the sum of the weights a table holds under keys
SumWeights(weights, keys) ==
  IF keys = {} THEN 0
  ELSE LET k == CHOOSE x \in keys : TRUE
       IN weights[k] + SumWeights(weights, keys \ {k})

\* an investment score or an overall risk score has been computed
ScoreComputed ==
  \/ spc = "scored"
  \/ spc = "recommended" /\ sin.fn = "calculate_investment_score"
  \/ spc \in {"risk_scored", "flagged"}

C25_DefaultPayloadHarmless ==
  ( /\ spc # "off"
    /\ sin.fn = "calculate_investment_score"
    /\ sin.profile.market_data = MarketInfoDefault )
  => spc # "raised"

\* run id has been checkpointed at least once
Checkpointed(id) == id \in Runs /\ pc[id] \notin {"idle", "queued"}

\* C26: get_analysis_status(id) returns the document the most recent
\* checkpoint of id recorded, mid-pipeline snapshots included, returns the
\* not_found outcome when id has no checkpoint, and leaves the checkpoint
\* store as it was.
C26_StatusIsLastCheckpoint ==
  [][reply' # reply =>
       /\ reply'.result = IF Checkpointed(reply'.id)
                          THEN db[reply'.id] ELSE NotFound
       /\ Checkpointed(reply'.id)
            => /\ reply'.result.submission_id = reply'.id
               /\ reply'.result.status \in {"processing", "completed", "error"}
       /\ db' = db
       /\ DOMAIN db' = DOMAIN db]_vars

\* a lookup answered with a snapshot taken in the middle of the pipeline
C26_Witness ==
  /\ reply # EmptyDict
  /\ reply.id = 1
  /\ reply.result.status = "processing"
  /\ reply.result.current_stage = "enrichment"
  /\ Has(reply.result, "startup_profile")

\* C28: once upload_and_analyze has returned a run's id, every status
\* lookup for that id returns the run's checkpoint document and never the
\* not_found outcome.
C28_ReturnedIdIsFound ==
  [][( /\ reply' # reply
       /\ reply'.id \in Runs
       /\ pc[reply'.id] # "idle" )
     => reply'.result # NotFound]_vars

\* C27: list_recent_analyses(N) returns at most N summaries, ordered by
\* started_at descending, each the summary of a distinct stored run; when
\* the store holds more than N runs, the N returned are the N most recently
\* started.
C27_ListBoundedAndOrdered ==
  lpc = "returned" =>
    LET n == Len(lres)
        listed == {lres[i].submission_id : i \in 1..n}
    IN /\ n <= llimit
       /\ \A i, j \in 1..n : i < j => lres[i].started_at >= lres[j].started_at
       /\ \A i, j \in 1..n : i # j => lres[i].submission_id # lres[j].submission_id
       /\ \A i \in 1..n :
            /\ Has(lstore, lres[i].submission_id)
            /\ lres[i].started_at = lstore[lres[i].submission_id].started_at
            /\ lres[i].status = lstore[lres[i].submission_id].status
       /\ Cardinality(DOMAIN lstore) > llimit
            => /\ n = llimit
               /\ \A id \in DOMAIN lstore \ listed : \A i \in 1..n :
                    lstore[id].started_at <= lres[i].started_at

\* a listing cut at one entry of a store of two runs started at different
\* times, the later one being the one listed
C27_Witness ==
  /\ lpc = "returned"
  /\ llimit = 1
  /\ Cardinality(DOMAIN lstore) = 2
  /\ lstore[1].started_at > lstore[2].started_at
  /\ Len(lres) = 1
  /\ lres[1].submission_id = 1
  /\ lres[1].recommendation = "REVIEW"

\* a number clamped to [0,1], in thousandths
Clamp01(x) == IF x < 0 THEN 0 ELSE IF x > 1000 THEN 1000 ELSE x

\* C29: for every profile, an empty founder list included, _score_team
\* returns 0.5, plus 0.1 per founder with more than 5 years of experience,
\* plus 0.1 per founder whose background contains "ex-" in any case, plus
\* (verificationScore - 0.5) x 0.2 per verification record, clamped to at
\* most 1.0 and at least 0.0.
C29_TeamScoreFormula ==
  ScoreReturned =>
    LET founders == sin.profile.founders
        ver == sin.profile.founder_verification
        experienced == {j \in 1..Len(founders) :
                          founders[j].experience_years > 5}
        alumni == {j \in 1..Len(founders) :
                     founders[j].background \in {"EX-Meta"}}
        high == {n \in DOMAIN ver : ver[n].verification_score = 1000}
        low == {n \in DOMAIN ver : ver[n].verification_score = 0}
    IN sscore.component_scores.team
         = Clamp01(500 + 100 * Cardinality(experienced)
                       + 100 * Cardinality(alumni)
                       + 100 * Cardinality(high) - 100 * Cardinality(low))

\* C30: for every profile _score_market returns 0.5, plus 0.2 if the TAM is
\* strictly greater than 1e9, else plus 0.1 if it is strictly greater than
\* 1e8, plus (marketValidationScore - 0.5) x 0.3, clamped to [0,1]; a TAM of
\* exactly 1e9 earns 0.1 and a TAM of exactly 1e8 earns nothing.
C30_MarketScoreFormula ==
  ( /\ spc \in {"scored", "raised", "recommended"}
    /\ sin.fn = "calculate_investment_score" )
  => LET md == sin.profile.market_data
         mv == sin.profile.market_validation
         known == Has(md, "tam") /\ md.tam # None
         bonus == IF known /\ md.tam[1] > 1000000000 THEN 200
                  ELSE IF known /\ md.tam[1] > 100000000 THEN 100 ELSE 0
         v == IF Has(mv, "addressable_market_score")
              THEN mv.addressable_market_score ELSE 500
     IN /\ spc # "raised"
        /\ sscore.component_scores.market
             = Clamp01(500 + bonus + (3 * (v - 500)) \div 10)
        /\ (known /\ md.tam[1] = 1000000000) => bonus = 100
        /\ (known /\ md.tam[1] = 100000000) => bonus = 0

\* C31: the red flags are exactly the risk categories whose risk score is
\* strictly greater than 0.70 (exactly 0.70 is not flagged), one flag per
\* such category, each with the category's name and its risk-factor list.
C31_RedFlagsAreHighRiskCategories ==
  spc = "flagged" =>
    LET ra == sin.risk_assessment
        high == {c \in DOMAIN ra :
                   Has(ra[c], "risk_score") /\ ra[c].risk_score > 700}
    IN /\ {sflags[i].category : i \in 1..Len(sflags)} = high
       /\ Len(sflags) = Cardinality(high)
       /\ \A i \in 1..Len(sflags) :
            sflags[i].risk_factors
              = IF Has(ra[sflags[i].category], "risk_factors")
                THEN ra[sflags[i].category].risk_factors ELSE << >>
       /\ \A c \in DOMAIN ra :
            (Has(ra[c], "risk_score") /\ ra[c].risk_score = 700)
              => c \notin {sflags[i].category : i \in 1..Len(sflags)}

\* flags raised for an assessment with one category at exactly 0.70, one
\* just above it and one well above it
C31_Witness ==
  /\ spc = "flagged"
  /\ sin.risk_assessment["team_risks"] = [risk_score |-> 800]
  /\ Get(sin.risk_assessment["market_risks"], "risk_score", 0) = 700
  /\ Get(sin.risk_assessment["financial_risks"], "risk_score", 0) = 701
  /\ Len(sflags) = 2
  /\ sflags[2].category = "financial_risks"
  /\ sflags[2].risk_factors = <<"Short runway">>

NamedFounders(founders) ==
  {founders[j].name : j \in {i \in 1..Len(founders) :
                               Has(founders[i], "name")}} \ {""}

\* C33: for every founder list _verify_founder_credentials returns a result
\* that has no entry for a founder whose name is missing or empty, for whom
\* no sub-lookup is made either, and has an entry for every founder with a
\* non-empty name.
C33_VerificationCoversNamedFounders ==
  /\ vpc # "raised"
  /\ vpc = "returned" =>
       /\ DOMAIN vresults = NamedFounders(vfounders)
       /\ \A i \in 1..Len(vlookups) : vlookups[i] # ""

\* the stage outputs a dict carries
OutputsOf(doc) ==
  {k \in StageIdx : Has(doc, OutputKeys[k])}

\* run r was submitted with a kind process_document raises for
Unrecognized(r) ==
  input[r] # "none" /\ ~SupportedFileType(input[r])

\* C34: a run whose input kind the ingestion worker does not recognise calls
\* no worker but the ingestion worker, never has a stage output in its
\* document, and once the worker has raised its document has status error
\* and current_stage ingestion.
C34_UnsupportedKindFailsAtIngestion ==
  \A r \in Runs :
    Unrecognized(r) =>
      /\ calls[r] \in {<< >>, <<1>>}
      /\ pc[r] \in {"queued", "worker", "raised"}
      /\ r \in DOMAIN db => OutputsOf(db[r]) = {}
      /\ pc[r] = "raised" =>
           /\ r \in DOMAIN db
           /\ db[r]["status"] = "error"
           /\ db[r]["current_stage"] = "ingestion"
           /\ failed[r] = "ingestion"

C34_Witness ==
  \E r \in Runs :
    /\ Unrecognized(r)
    /\ pc[r] = "raised"
    /\ calls[r] = <<1>>
    /\ db[r]["status"] = "error"

\* the index of the stage a document names as its current_stage, and one
\* past the last stage when it names completed
StageNo(doc) ==
  IF doc["current_stage"] = "completed"
    THEN Len(Stages) + 1
    ELSE CHOOSE k \in StageIdx : Stages[k] = doc["current_stage"]

\* C35: in every checkpoint of a run the stage outputs present are exactly
\* those of the stages strictly before current_stage, so a checkpoint whose
\* current_stage is X never holds the output of X.
C35_OutputsStrictlyPrecedeStage ==
  \A r \in DOMAIN db :
    OutputsOf(db[r]) = {k \in StageIdx : k < StageNo(db[r])}

C35_Witness ==
  \E r \in DOMAIN db :
    /\ db[r]["current_stage"] = Stages[3]
    /\ OutputsOf(db[r]) = {1, 2}

\* C36: in every checkpoint of every run current_stage is completed if and
\* only if status is completed.
C36_CompletedStageIffCompletedStatus ==
  \A r \in DOMAIN db :
    db[r]["current_stage"] = "completed" <=> db[r]["status"] = "completed"

\* the step is one in which run r calls _save_analysis_state: at its start,
\* after a worker of the first five stages returned, in the except clause
\* and at the final save
Wrote(r) ==
  \/ pc[r] = "queued" /\ pc'[r] = "worker"
  \/ pc[r] = "worker" /\ stage'[r] = stage[r] + 1
  \/ pc[r] # "raised" /\ pc'[r] = "raised"
  \/ pc[r] = "final_save" /\ pc'[r] = "returned"

\* the step changes the document of id r
DocChanged(r) ==
  /\ r \in DOMAIN db'
  /\ r \in DOMAIN db => db'[r] # db[r]

\* C37: after every checkpoint write of a run the stored document of its id
\* equals the in-memory analysis_state of the run at the moment of the
\* write: no field differs and none is absent on either side.
C37_StoredDocumentIsState ==
  [][\A r \in Runs :
       (Wrote(r) \/ DocChanged(r)) => /\ r \in DOMAIN db'
                                      /\ db'[r] = state'[r]]_vars

\* a later checkpoint of a run that has overwritten a field and added some
C37_Witness ==
  \E r \in DOMAIN db :
    /\ db[r] = state[r]
    /\ db[r]["current_stage"] = Stages[4]
    /\ Has(db[r], OutputKeys[3])

\* the analysis_state of a run driven alone when its first k workers have
\* returned and worker k + 1 has been called (k < 6)
RECURSIVE AloneState(_, _)
AloneState(r, k) ==
  IF k = 0
    THEN BeginStage(InitialState(r, input[r], UtcNow(r, "started")), 1)
    ELSE BeginStage(StoreOutput(AloneState(r, k - 1), k,
                                WorkerOutput(k, r, input[r])), k + 1)

\* the analysis_state of a run driven alone after lines 103-108
AloneCompleted(r) ==
  CompleteState(StoreOutput(AloneState(r, Len(Stages) - 1), Len(Stages),
                            WorkerOutput(Len(Stages), r, input[r])),
                UtcNow(r, "completed"))

\* the last checkpoint of a run driven alone that has come as far as run r
AloneDoc(r) ==
  CASE pc[r] = "worker" -> AloneState(r, stage[r] - 1)
    [] pc[r] \in {"sink", "final_save"} -> AloneState(r, Len(Stages) - 1)
    [] pc[r] = "returned" -> AloneCompleted(r)
    [] pc[r] = "raised" ->
         IF failed[r] = "sink"
           THEN ErrorState(AloneCompleted(r), SinkError, UtcNow(r, "failed"))
           ELSE ErrorState(AloneState(r, stage[r] - 1), WorkerError(stage[r]),
                           UtcNow(r, "failed"))

\* the runs that take part in the step
Stepping ==
  {r \in Runs : pc'[r] # pc[r] \/ stage'[r] # stage[r]}

\* C38: when several runs with distinct ids are driven concurrently, every
\* checkpoint write of a run modifies only the document of its own id, and
\* the checkpoints of each run are those of the run driven alone, whatever
\* the interleaving of the runs' stages.
C38_RunsAreIsolated ==
  /\ [](/\ DOMAIN db = {r \in Runs : pc[r] \notin {"idle", "queued"}}
        /\ \A r \in DOMAIN db : db[r] = AloneDoc(r))
  /\ [][\A r \in Runs : DocChanged(r) => Stepping = {r}]_vars

\* two runs in flight at different stages, each with its own checkpoints
C38_Witness ==
  /\ pc[1] = "worker" /\ stage[1] = 2
  /\ pc[2] = "worker" /\ stage[2] = 4
  /\ db[1]["current_stage"] = Stages[2]
  /\ db[2]["current_stage"] = Stages[4]

\* the metrics of the rankings that _calculate_overall_score has a weight for
RankedMetrics ==
  DOMAIN sin.rankings \cap Metrics

====
